---- MODULE Spec2Model ----
(***************************************************************************)
(* Model of the email composition and delivery core of the PDF-to-email    *)
(* converter: EmailSender.generate_subject, the HTML composers,            *)
(* compose_email and the three send paths of send_email                    *)
(* (src/src/email_sender.py), with the configuration of src/src/config.py. *)
(***************************************************************************)
EXTENDS Integers, Sequences, FiniteSets, TLC

VARIABLES
    subj,       \* the last call of generate_subject: its inputs, clock readings and outcome
    cfg,        \* EMAIL_CONFIG as read by EmailSender.__init__: sender_type, use_mime_attachments
    inputs,     \* the arguments of the compose_email call that built msg
    msg,        \* the MIME message built by compose_email, or NoMsg
    pc,         \* position of the running send_email call
    conn,       \* the SMTP connection of the running call: "none", "open" or "closed"
    steps,      \* the send function the call dispatched to, then the transport
                \* operations it has attempted so far, in order
    pending,    \* the exception raised inside the try block of the call ("" when none)
    accepted,   \* TRUE once the remote server has accepted the message in this call
    buffers,    \* the image buffers send_email extracted from the message (Graph only)
    payload,    \* the JSON payload built by a Graph send path, or NoPayload
    ret,        \* what send_email returned: "none" (still running), "True", "False", "raised"
    diag,       \* the st.error diagnostic emitted by the call ("" when none)
    raisedLog,  \* the exceptions raised so far inside the running call, in order
    token,      \* what acquire_microsoft_graph_token did in the running call
    totals,     \* over all send_email calls so far: calls, SMTP sessions, token
                \* acquisitions and POSTs
    run,        \* the run of main: its position and the issues validate_config returned
    conv        \* the convert_pdf_to_images call: its position and the temporary file

vars == <<subj, cfg, inputs, msg, pc, conn, steps, pending, accepted, buffers, payload, ret, diag,
          raisedLog, token, totals, run, conv>>

sendVars == <<cfg, inputs, msg, pc, conn, steps, pending, accepted, buffers, payload, ret, diag,
              raisedLog, token, totals>>
\* the state of one send_email call
callVars == <<pc, conn, steps, pending, accepted, buffers, payload, ret, diag, raisedLog, token>>

(***************************************************************************)
(* Bounds of the model.                                                    *)
(***************************************************************************)
\* number of consecutive days the clock readings are drawn from
NumDays == 14
\* largest number of page images handed to compose_email
MaxImages == 3
\* largest number of send_email calls in one behaviour
MaxSends == 3
\* largest number of pages of an uploaded PDF
MaxPages == 3
\* largest number of convert_pdf_to_images calls in one behaviour
MaxConversions == 2

(***************************************************************************)
(* Dates.  A date is its proleptic Gregorian ordinal (date.toordinal());   *)
(* adding a timedelta of k days adds k to the ordinal.                     *)
(***************************************************************************)
\* the days a clock reading may fall on: 2024-12-23 (a Monday) onwards, so that
\* the window crosses a month and a year boundary
Days == 739243 .. (739243 + NumDays - 1)

\* datetime.weekday(): Monday is 0, Sunday is 6
Weekday(d) == (d + 6) % 7

DigitChars == <<"0", "1", "2", "3", "4", "5", "6", "7", "8", "9">>

\* str(n) of a natural number, as the f-strings format {i+1}
RECURSIVE Dec(_)
Dec(n) == IF n < 10 THEN DigitChars[n + 1] ELSE Dec(n \div 10) \o DigitChars[(n % 10) + 1]

\* n in decimal, zero-padded to at least w digits (%Y, %m, %d)
RECURSIVE Pad(_, _)
Pad(n, w) == IF w <= 1 THEN Dec(n)
             ELSE IF n < 10 THEN "0" \o Pad(n, w - 1) \* leading zeros
             ELSE Pad(n \div 10, w - 1) \o DigitChars[(n % 10) + 1]

\* the civil date [y, m, d] of an ordinal (date.fromordinal)
CivilFromOrdinal(o) ==
    LET z   == (o - 719163) + 719468
        era == z \div 146097
        doe == z - era * 146097
        yoe == (doe - (doe \div 1460) + (doe \div 36524) - (doe \div 146096)) \div 365
        doy == doe - (365 * yoe + (yoe \div 4) - (yoe \div 100))
        mp  == (5 * doy + 2) \div 153
        d   == doy - ((153 * mp + 2) \div 5) + 1
        m   == IF mp < 10 THEN mp + 3 ELSE mp - 9
        y   == yoe + era * 400 + (IF m <= 2 THEN 1 ELSE 0)
    IN  [y |-> y, m |-> m, d |-> d]

\* strftime("%Y-%m-%d")
Strftime(o) ==
    LET c == CivilFromOrdinal(o)
    IN  Pad(c.y, 4) \o "-" \o Pad(c.m, 2) \o "-" \o Pad(c.d, 2)

(***************************************************************************)
(* generate_subject                                                        *)
(***************************************************************************)
\* the topic types generate_subject is called with: the four it accepts and
\* others it does not
TopicTypes == {"", "Non-Onc", "Onc", "No Date", "Other", "onc"}
Subtopics  == {"", "x", "a b"}

FridayOffsetNextWeek(w) == ((4 - w + 6) % 7) + 1
FridayOffsetSaturday(w) == (5 - w + 7) % 7
\* (4 - datetime.now().weekday() + 7) % 7
FridayOffset(w) == (4 - w + 7) % 7

JoinKeepEmpty(list) == list
\* [s for s in str_list if s]
NonEmpty(list) == SelectSeq(list, LAMBDA s : s # "")

\* " ".join(str_list)
RECURSIVE JoinSpace(_)
JoinSpace(list) ==
    IF Len(list) = 0 THEN ""
    ELSE IF Len(list) = 1 THEN list[1]
    ELSE list[1] \o " " \o JoinSpace(Tail(list))

NoSubject == [returned |-> FALSE, date |-> "", subject |-> "", error |-> "", message |-> ""]

InvalidTopicDefault(topic, subtopic) ==
    [returned |-> TRUE, date |-> "", subject |-> JoinSpace(NonEmpty(<<"", "", subtopic>>)),
     error |-> "", message |-> ""]
\* the else branch: raise ValueError(f"Invalid topic type: {topic_type}")
InvalidTopic(topic, subtopic) ==
    [returned |-> FALSE, date |-> "", subject |-> "", error |-> "ValueError",
     message |-> "Invalid topic type: " \o topic]

\* generate_subject(topic_type, subtopic); now1 and now2 are the days of the
\* first and the second datetime.now() of the Non-Onc/Onc branch
GenerateSubject(topic, subtopic, now1, now2) ==
    IF topic \notin {"", "Non-Onc", "Onc", "No Date"}
    THEN InvalidTopic(topic, subtopic)
    ELSE LET date  == IF topic = "" THEN Strftime(now1)
                      ELSE IF topic \in {"Non-Onc", "Onc"}
                           THEN Strftime(now1 + FridayOffset(Weekday(now2)))
                           ELSE ""
             label == IF topic \in {"Non-Onc", "Onc"} THEN topic ELSE ""
         IN  [returned |-> TRUE, date |-> date,
              subject  |-> JoinSpace(NonEmpty(<<date, label, subtopic>>)),
              error    |-> "", message |-> ""]

NoCall == [called |-> FALSE, topic |-> "", subtopic |-> "", now1 |-> 0, now2 |-> 0,
           out |-> NoSubject]

(***************************************************************************)
(* Configuration (src/src/config.py) as EmailSender.__init__ reads it.     *)
(***************************************************************************)
\* EMAIL_CONFIG["smtp_hosts"]
SmtpHosts == [gmail |-> "smtp.gmail.com", microsoft |-> "smtp.office365.com",
              yahoo |-> "smtp.mail.yahoo.com"]

\* the values sender_type is configured with: the three SMTP ones, Graph, and
\* one that is neither
SenderTypes == {"gmail", "microsoft", "yahoo", "microsoft_graph", "smtp"}

Configs == [sender_type : SenderTypes, use_mime_attachments : BOOLEAN,
            sender_email : {"sender@example.com"},
            recipient_email : {"rcpt@example.com"}]

(***************************************************************************)
(* Page images and base64.                                                 *)
(***************************************************************************)
\* the bytes of a page image (BytesIO.getvalue())
Payloads == {<<137, 80, 78, 71>>, <<0, 255>>}

\* image_buffers: up to MaxImages page images, in page order
ImageLists == UNION {[1 .. n -> Payloads] : n \in 0 .. MaxImages}

B64Alphabet ==
    <<"A", "B", "C", "D", "E", "F", "G", "H", "I", "J", "K", "L", "M", "N", "O", "P",
      "Q", "R", "S", "T", "U", "V", "W", "X", "Y", "Z", "a", "b", "c", "d", "e", "f",
      "g", "h", "i", "j", "k", "l", "m", "n", "o", "p", "q", "r", "s", "t", "u", "v",
      "w", "x", "y", "z", "0", "1", "2", "3", "4", "5", "6", "7", "8", "9", "+", "/">>

\* base64.b64encode(bytes), as the sequence of its characters
RECURSIVE B64Encode(_)
B64Encode(b) ==
    IF Len(b) = 0 THEN <<>>
    ELSE IF Len(b) = 1
         THEN <<B64Alphabet[(b[1] \div 4) + 1], B64Alphabet[((b[1] % 4) * 16) + 1], "=", "=">>
    ELSE IF Len(b) = 2
         THEN <<B64Alphabet[(b[1] \div 4) + 1],
                B64Alphabet[((b[1] % 4) * 16 + (b[2] \div 16)) + 1],
                B64Alphabet[((b[2] % 16) * 4) + 1], "=">>
    ELSE <<B64Alphabet[(b[1] \div 4) + 1],
           B64Alphabet[((b[1] % 4) * 16 + (b[2] \div 16)) + 1],
           B64Alphabet[((b[2] % 16) * 4 + (b[3] \div 64)) + 1],
           B64Alphabet[(b[3] % 64) + 1]>> \o B64Encode(SubSeq(b, 4, Len(b)))

\* the value of a base64 character
B64Value(c) == (CHOOSE i \in 1 .. 64 : B64Alphabet[i] = c) - 1

\* base64 decoding, as get_payload(decode=True) undoes the transfer encoding
RECURSIVE B64Decode(_)
B64Decode(t) ==
    IF Len(t) < 4 THEN <<>>
    ELSE LET v1 == B64Value(t[1])
             v2 == B64Value(t[2])
         IN  IF t[3] = "=" THEN <<v1 * 4 + (v2 \div 16)>>
             ELSE LET v3 == B64Value(t[3])
                  IN  IF t[4] = "="
                      THEN <<v1 * 4 + (v2 \div 16), (v2 % 16) * 16 + (v3 \div 4)>>
                      ELSE <<v1 * 4 + (v2 \div 16), (v2 % 16) * 16 + (v3 \div 4),
                             (v3 % 4) * 64 + B64Value(t[4])>>
                           \o B64Decode(SubSeq(t, 5, Len(t)))

\* bytes.decode(): the characters as one string
RECURSIVE Chars(_)
Chars(t) == IF Len(t) = 0 THEN "" ELSE t[1] \o Chars(Tail(t))

(***************************************************************************)
(* HTML composers.  An HTML body is the sequence of its pieces: literal    *)
(* markup, the message text, image tags, line breaks and separators.       *)
(***************************************************************************)
Markup(m) == [tag |-> "markup", text |-> m, src |-> ""]
Text(t)   == [tag |-> "text", text |-> t, src |-> ""]
\* <img src="..." ... alt="...">
Img(src, alt) == [tag |-> "img", text |-> alt, src |-> src]
Br == [tag |-> "br", text |-> "", src |-> ""]
Hr == [tag |-> "hr", text |-> "", src |-> ""]

\* the loop of create_email_content over images k..n (k = i+1): every image tag
\* is followed by <br> and by <hr>
RECURSIVE EmailContentImages(_, _)
EmailContentImages(k, n) ==
    IF k > n THEN <<>>
    ELSE <<Img("cid:image" \o Dec(k), ""), Br, Hr>> \o EmailContentImages(k + 1, n)

\* create_email_content(message_body, image_buffers)
CreateEmailContent(body, images) ==
    <<Markup("<html><body>"), Text(body), Br, Br>>
        \o EmailContentImages(1, Len(images))
        \o <<Markup("</body></html>")>>

\* if i < len(image_buffers) - 1: html_parts.append('<hr>')
SeparatorAfter(k, n) == IF k < n THEN <<Hr>> ELSE <<>>

\* the loop of create_html_with_cid_references over images k..n
RECURSIVE CidImages(_, _)
CidImages(k, n) ==
    IF k > n THEN <<>>
    ELSE <<Img("cid:page" \o Dec(k), "Page " \o Dec(k))>>
             \o SeparatorAfter(k, n) \o CidImages(k + 1, n)

\* create_html_with_cid_references(message_body, image_buffers)
CreateHtmlWithCidReferences(body, images) ==
    <<Markup("<p>"), Text(body), Markup("</p>")>> \o CidImages(1, Len(images))

\* the loop of create_html_with_images_microsoft_graph over images k..n
RECURSIVE Base64Images(_, _)
Base64Images(k, images) ==
    IF k > Len(images) THEN <<>>
    ELSE <<Img("data:image/png;base64," \o Chars(B64Encode(images[k])),
               "Page " \o Dec(k))>>
             \o SeparatorAfter(k, Len(images)) \o Base64Images(k + 1, images)

\* create_html_with_images_microsoft_graph(message_body, image_buffers)
CreateHtmlWithImagesMicrosoftGraph(body, images) ==
    <<Markup("<p>"), Text(body), Markup("</p>")>> \o Base64Images(1, images)

(***************************************************************************)
(* compose_email.  A MIME message is its headers and the sequence of its   *)
(* parts in attach order.                                                  *)
(***************************************************************************)
\* MIMEText(html_content, 'html')
HtmlPart(html) ==
    [ctype |-> "text/html", name |-> "", content_id |-> "", payload |-> <<>>, html |-> html]

ContentIdHeaderZeroBased(prefix, k) == "<" \o prefix \o Dec(k - 1) \o ">"
\* image.add_header('Content-ID', f'<page{i+1}>') / f'<image{i+1}>'
ContentIdHeader(prefix, k) == "<" \o prefix \o Dec(k) \o ">"

\* MIMEImage(img_data, name=f'{prefix}{i+1}.png') with its Content-ID header;
\* the payload is kept base64 transfer-encoded
ImagePart(prefix, k, data) ==
    [ctype |-> "image/png", name |-> prefix \o Dec(k) \o ".png",
     content_id |-> ContentIdHeader(prefix, k), payload |-> B64Encode(data), html |-> <<>>]

\* for i, buffer in enumerate(image_buffers): ... msg.attach(image)
ImageParts(prefix, images) == [k \in 1 .. Len(images) |-> ImagePart(prefix, k, images[k])]

\* the branch compose_email takes: sender_type, then use_mime_attachments
ComposeVariant(c) ==
    IF c.sender_type = "microsoft_graph"
    THEN IF c.use_mime_attachments THEN "graph_attachments" ELSE "graph_inline"
    ELSE "smtp"

NoInputs == [subject |-> "", body |-> "", images |-> <<>>]
NoMsg == [composed |-> FALSE, From |-> "", To |-> "", Subject |-> "", parts |-> <<>>]

\* compose_email(subject, message_body, image_buffers)
ComposeEmailMsg(c, subject, body, images) ==
    [composed |-> TRUE, From |-> c.sender_email, To |-> c.recipient_email,
     Subject |-> subject,
     parts |->
        IF ComposeVariant(c) = "graph_attachments"
        THEN <<HtmlPart(CreateHtmlWithCidReferences(body, images))>>
                 \o ImageParts("page", images)
        ELSE IF ComposeVariant(c) = "graph_inline"
        THEN <<HtmlPart(CreateHtmlWithImagesMicrosoftGraph(body, images))>>
        ELSE ImageParts("image", images)
                 \o <<HtmlPart(CreateEmailContent(body, images))>>]

(***************************************************************************)
(* send_email and its three send paths.  A call runs as a sequence of      *)
(* steps; each step that talks to a server draws its outcome: "ok" or the  *)
(* exception it raises.                                                    *)
(***************************************************************************)
NoPayload == [built |-> FALSE]

\* the exceptions the steps raise; every one is a subclass of Exception
SmtpExceptions == {"SMTPException", "SMTPAuthenticationError", "SMTPConnectError",
                   "SMTPServerDisconnected", "SMTPResponseException"}
RequestExceptions == {"HTTPError", "ConnectionError"}
Exceptions == SmtpExceptions \cup RequestExceptions \cup {"KeyError", "OSError", "RuntimeError"}

Uncaught == [caught |-> FALSE, diag |-> ""]
Caught(d) == [caught |-> TRUE, diag |-> d]

SmtpHandlerNoCatchAll(e) ==
    IF e = "SMTPAuthenticationError"
    THEN Caught("Authentication failed. Please check your email credentials.")
    ELSE IF e \in SmtpExceptions THEN Caught("SMTP error occurred: " \o e)
    ELSE Uncaught
\* the except clauses of send_email_smtp, in order
SmtpHandler(e) ==
    IF e = "SMTPAuthenticationError"
    THEN Caught("Authentication failed. Please check your email credentials.")
    ELSE IF e \in SmtpExceptions THEN Caught("SMTP error occurred: " \o e)
    ELSE IF e \in Exceptions THEN Caught("An error occurred while sending email: " \o e)
    ELSE Uncaught

\* the except clauses of send_email_microsoft_graph_with_attachments
GraphAttachmentsHandler(e) ==
    IF e \in RequestExceptions
    THEN Caught("Microsoft Graph API error with attachments: " \o e)
    ELSE IF e \in Exceptions
    THEN Caught("An error occurred while sending email via Microsoft Graph with attachments: "
                    \o e)
    ELSE Uncaught

\* the except clauses of send_email_microsoft_graph_simple
GraphSimpleHandler(e) ==
    IF e \in RequestExceptions THEN Caught("Microsoft Graph API error: " \o e)
    ELSE IF e \in Exceptions THEN Caught("An error occurred while sending email: " \o e)
    ELSE Uncaught

SendPathIgnoringFlag(c) ==
    IF c.sender_type = "microsoft_graph" THEN "graph_attachments" ELSE "smtp"
\* the branch send_email takes: sender_type, then use_mime_attachments
SendPath(c) ==
    IF c.sender_type = "microsoft_graph"
    THEN IF c.use_mime_attachments THEN "graph_attachments" ELSE "graph_inline"
    ELSE "smtp"

ExtractImagesAllParts(m) == [k \in 1 .. Len(m.parts) |-> B64Decode(m.parts[k].payload)]
\* send_email: the image parts of msg.walk(), each decoded into a buffer
ExtractImages(m) ==
    LET imgs == SelectSeq(m.parts, LAMBDA part : part.ctype = "image/png")
    IN  [k \in 1 .. Len(imgs) |-> B64Decode(imgs[k].payload)]

\* the first text/html part's content (html_content stays "" when there is none)
HtmlContent(m) ==
    LET h == SelectSeq(m.parts, LAMBDA part : part.ctype = "text/html")
    IN  IF Len(h) = 0 THEN <<>> ELSE h[1].html

\* the attachments list of send_email_microsoft_graph_with_attachments
GraphAttachments(bufs) ==
    [k \in 1 .. Len(bufs) |->
        [name |-> "page" \o Dec(k) \o ".png", contentType |-> "image/png",
         contentBytes |-> Chars(B64Encode(bufs[k])),
         contentId |-> "page" \o Dec(k), isInline |-> TRUE]]

\* payload["message"] of send_email_microsoft_graph_with_attachments
GraphAttachmentsPayload(c, m, bufs) ==
    [built |-> TRUE, subject |-> m.Subject, content |-> HtmlContent(m),
     toRecipients |-> <<c.recipient_email>>, attachments |-> GraphAttachments(bufs)]

\* payload["message"] of send_email_microsoft_graph_simple: no attachments key
GraphSimplePayload(c, m) ==
    [built |-> TRUE, subject |-> m.Subject, content |-> HtmlContent(m),
     toRecipients |-> <<c.recipient_email>>]

\* what app.acquire_token_for_client answers: a token, or an error code with
\* its description
TokenResponses ==
    {[access_token |-> "token-1"],
     [error |-> "invalid_client", error_description |-> "AADSTS7000215"],
     [error |-> "unauthorized_client", error_description |-> "AADSTS700016"]}

NoToken == [raised |-> "", message |-> "", token |-> ""]

AcquireTokenNoCheck(result) ==
    [raised |-> "", message |-> "",
     token |-> IF "access_token" \in DOMAIN result THEN result.access_token ELSE ""]
\* acquire_microsoft_graph_token, given the identity provider's response
AcquireToken(result) ==
    IF "access_token" \notin DOMAIN result
    THEN [raised |-> "RuntimeError",
          message |-> "Token request failed: " \o result.error \o "\n"
                          \o result.error_description,
          token |-> ""]
    ELSE [raised |-> "", message |-> "", token |-> result.access_token]

\* the token request does not reach the identity provider
TokenFault == [raised |-> "ConnectionError", message |-> "", token |-> ""]

\* main has not run; convert_pdf_to_images has not been called
NoRun == [pc |-> "start", issues |-> <<>>, reported |-> {}]
NoConv == [pc |-> "idle", file |-> "none", pages |-> 0, page |-> 0, raised |-> "",
           outcome |-> "none", calls |-> 0, left |-> 0]

NoTotals == [calls |-> 0, sessions |-> 0, tokens |-> 0, posts |-> 0]

\* an exception newly in flight is recorded
LogRaise ==
    raisedLog' = IF pending' # pending /\ pending' # "" THEN Append(raisedLog, pending')
                 ELSE raisedLog

SendIdle ==
    /\ raisedLog = <<>>
    /\ token = NoToken
    /\ pc = "idle"
    /\ conn = "none"
    /\ steps = <<>>
    /\ pending = ""
    /\ accepted = FALSE
    /\ buffers = <<>>
    /\ payload = NoPayload
    /\ ret = "none"
    /\ diag = ""

\* the message texts main hands to compose_email
Subjects == {"2024-12-27 Onc x"}
Bodies == {"Hello"}

\* main: msg = email_sender.compose_email(subject, message_body, image_buffers)
ComposeEmail ==
    /\ pc = "idle"
    /\ ~msg.composed
    /\ \E subject \in Subjects, body \in Bodies, images \in ImageLists :
           /\ inputs' = [subject |-> subject, body |-> body, images |-> images]
           /\ msg' = ComposeEmailMsg(cfg, subject, body, images)
    /\ UNCHANGED <<subj, run, conv, cfg, totals>>
    /\ UNCHANGED callVars

\* send_email(msg): a new call starts; the dispatch on sender_type and
\* use_mime_attachments
SendEmail ==
    /\ pc \in {"idle", "returned"}
    /\ msg.composed
    /\ totals.calls < MaxSends
    /\ totals' = [totals EXCEPT !.calls = @ + 1]
    /\ token' = NoToken
    /\ raisedLog' = <<>>
    /\ conn' = "none"
    /\ steps' = <<IF SendPath(cfg) = "graph_attachments"
                   THEN "send_email_microsoft_graph_with_attachments"
                   ELSE IF SendPath(cfg) = "graph_inline"
                   THEN "send_email_microsoft_graph_simple"
                   ELSE "send_email_smtp">>
    /\ pending' = ""
    /\ accepted' = FALSE
    /\ payload' = NoPayload
    /\ ret' = "none"
    /\ diag' = ""
    /\ buffers' = IF cfg.sender_type = "microsoft_graph" THEN ExtractImages(msg) ELSE <<>>
    /\ pc' = IF SendPath(cfg) = "graph_attachments" THEN "att_token"
             ELSE IF SendPath(cfg) = "graph_inline" THEN "simple_payload"
             ELSE "smtp_lookup"
    /\ UNCHANGED <<subj, run, conv, cfg, inputs, msg>>

\* a step raises e inside the with block: control goes to SMTP.__exit__
RaiseInWith(e) ==
    /\ pending' = e
    /\ pc' = "smtp_exit"

SmtpLookupDefaultHost ==
    /\ pc = "smtp_lookup"
    /\ pc' = "smtp_connect" /\ pending' = ""
    /\ UNCHANGED <<subj, run, conv, cfg, inputs, msg, conn, steps, accepted, buffers, payload, ret, diag>>
    /\ UNCHANGED <<token, totals>>
    /\ LogRaise
\* smtp_host = self.smtp_hosts[self.sender_type]
SmtpLookup ==
    /\ pc = "smtp_lookup"
    /\ IF cfg.sender_type \in DOMAIN SmtpHosts
       THEN pc' = "smtp_connect" /\ pending' = ""
       ELSE pc' = "smtp_handle" /\ pending' = "KeyError"
    /\ UNCHANGED <<subj, run, conv, cfg, inputs, msg, conn, steps, accepted, buffers, payload, ret, diag>>
    /\ UNCHANGED <<token, totals>>
    /\ LogRaise

\* smtplib.SMTP(smtp_host, self.smtp_port): the constructor connects; when it
\* raises, no connection is left and the with block is not entered
SmtpConnect ==
    /\ pc = "smtp_connect"
    /\ steps' = Append(steps, "connect")
    /\ totals' = [totals EXCEPT !.sessions = @ + 1]
    /\ \E outcome \in {"ok", "SMTPConnectError", "OSError"} :
           IF outcome = "ok"
           THEN conn' = "open" /\ pc' = "smtp_starttls" /\ pending' = ""
           ELSE conn' = "none" /\ pc' = "smtp_handle" /\ pending' = outcome
    /\ UNCHANGED <<subj, run, conv, cfg, inputs, msg, accepted, buffers, payload, ret, diag>>
    /\ UNCHANGED token
    /\ LogRaise

\* server.starttls()
SmtpStartTls ==
    /\ pc = "smtp_starttls"
    /\ steps' = Append(steps, "starttls")
    /\ \E outcome \in {"ok", "SMTPException", "OSError"} :
           IF outcome = "ok" THEN pc' = "smtp_login" /\ pending' = ""
           ELSE RaiseInWith(outcome)
    /\ UNCHANGED <<subj, run, conv, cfg, inputs, msg, conn, accepted, buffers, payload, ret, diag>>
    /\ UNCHANGED <<token, totals>>
    /\ LogRaise

\* server.login(self.sender_email, self.sender_password)
SmtpLogin ==
    /\ pc = "smtp_login"
    /\ steps' = Append(steps, "login")
    /\ \E outcome \in {"ok", "SMTPAuthenticationError", "SMTPException"} :
           IF outcome = "ok" THEN pc' = "smtp_send" /\ pending' = ""
           ELSE RaiseInWith(outcome)
    /\ UNCHANGED <<subj, run, conv, cfg, inputs, msg, conn, accepted, buffers, payload, ret, diag>>
    /\ UNCHANGED <<token, totals>>
    /\ LogRaise

\* server.send_message(msg): the server accepts the message when it answers
\* the DATA command with 250; a refusal or a connection lost in the middle of
\* the transmission raises and the message is not accepted
SmtpSendMessage ==
    /\ pc = "smtp_send"
    /\ steps' = Append(steps, "send_message")
    /\ \E outcome \in {"ok", "SMTPException", "SMTPServerDisconnected"} :
           IF outcome = "ok"
           THEN accepted' = TRUE /\ pc' = "smtp_exit" /\ pending' = ""
           ELSE accepted' = FALSE /\ RaiseInWith(outcome)
    /\ UNCHANGED <<subj, run, conv, cfg, inputs, msg, conn, buffers, payload, ret, diag>>
    /\ UNCHANGED <<token, totals>>
    /\ LogRaise

ConnAfterExitLeak(c, e) == IF e = "" THEN "closed" ELSE c
\* SMTP.__exit__: finally: self.close(), whatever happened in the block
ConnAfterExit(c, e) == "closed"

\* the end of the with block, SMTP.__exit__: QUIT is sent, a reply other than
\* 221 raises SMTPResponseException, and the connection is closed in any case
SmtpExit ==
    /\ pc = "smtp_exit"
    /\ steps' = Append(steps, "quit")
    /\ conn' = ConnAfterExit(conn, pending)
    /\ \E outcome \in {"ok", "SMTPResponseException"} :
           pending' = IF outcome = "ok" THEN pending ELSE outcome
    /\ pc' = "smtp_handle"
    /\ UNCHANGED <<subj, run, conv, cfg, inputs, msg, accepted, buffers, payload, ret, diag>>
    /\ UNCHANGED <<token, totals>>
    /\ LogRaise

\* leaving a try block: return True when nothing was raised, else the first
\* matching except clause reports and returns False; an exception no clause
\* matches leaves send_email
Leave(h) ==
    /\ pc' = "returned"
    /\ ret' = IF pending = "" THEN "True" ELSE IF h.caught THEN "False" ELSE "raised"
    /\ diag' = IF pending = "" THEN "" ELSE h.diag

\* send_email_smtp: return True, or the except clauses
SmtpHandle ==
    /\ pc = "smtp_handle"
    /\ Leave(SmtpHandler(pending))
    /\ UNCHANGED <<subj, run, conv, cfg, inputs, msg, conn, steps, pending, accepted, buffers, payload>>
    /\ UNCHANGED <<token, totals>>
    /\ UNCHANGED raisedLog

AttTokenCached ==
    /\ pc = "att_token"
    /\ IF totals.tokens > 0
       THEN /\ UNCHANGED <<steps, totals, pending>>
            /\ token' = AcquireToken([access_token |-> "token-1"])
            /\ pc' = "att_payload"
       ELSE /\ steps' = Append(steps, "acquire_token")
            /\ totals' = [totals EXCEPT !.tokens = @ + 1]
            /\ \E t \in {AcquireToken(r) : r \in TokenResponses} \cup {TokenFault} :
                   /\ token' = t
                   /\ pending' = t.raised
                   /\ pc' = IF t.raised = "" THEN "att_payload" ELSE "att_handle"
    /\ UNCHANGED <<subj, run, conv, cfg, inputs, msg, conn, accepted, buffers, payload, ret, diag>>
    /\ LogRaise
\* token = self.acquire_microsoft_graph_token()
AttToken ==
    /\ pc = "att_token"
    /\ steps' = Append(steps, "acquire_token")
    /\ totals' = [totals EXCEPT !.tokens = @ + 1]
    /\ \E t \in {AcquireToken(r) : r \in TokenResponses} \cup {TokenFault} :
           /\ token' = t
           /\ pending' = t.raised
           /\ pc' = IF t.raised = "" THEN "att_payload" ELSE "att_handle"
    /\ UNCHANGED <<subj, run, conv, cfg, inputs, msg, conn, accepted, buffers, payload, ret, diag>>
    /\ LogRaise

\* subject, html_content, attachments and payload are built
AttPayload ==
    /\ pc = "att_payload"
    /\ payload' = GraphAttachmentsPayload(cfg, msg, buffers)
    /\ pc' = "att_post"
    /\ UNCHANGED <<subj, run, conv, cfg, inputs, msg, conn, steps, pending, accepted, buffers, ret, diag>>
    /\ UNCHANGED <<token, totals>>
    /\ UNCHANGED raisedLog

GraphPostRetry(next) ==
    /\ steps' = Append(steps, "post")
    /\ totals' = [totals EXCEPT !.posts = @ + 1]
    /\ \E outcome \in {"ok", "HTTPError", "ConnectionError"} :
           /\ accepted' = (outcome = "ok")
           /\ pending' = IF outcome = "ok" THEN "" ELSE outcome
           /\ pc' = IF outcome # "ok" /\ steps[Len(steps)] # "post" THEN pc ELSE next
\* requests.post(url, ...) and response.raise_for_status(): a success status
\* acknowledges the message; an error status raises HTTPError, a network fault
\* ConnectionError
GraphPost(next) ==
    /\ steps' = Append(steps, "post")
    /\ totals' = [totals EXCEPT !.posts = @ + 1]
    /\ \E outcome \in {"ok", "HTTPError", "ConnectionError"} :
           /\ accepted' = (outcome = "ok")
           /\ pending' = IF outcome = "ok" THEN "" ELSE outcome
    /\ pc' = next

AttPost ==
    /\ pc = "att_post"
    /\ GraphPost("att_handle")
    /\ UNCHANGED <<subj, run, conv, cfg, inputs, msg, conn, buffers, payload, ret, diag>>
    /\ UNCHANGED token
    /\ LogRaise

\* send_email_microsoft_graph_with_attachments: return True, or the except clauses
AttHandle ==
    /\ pc = "att_handle"
    /\ Leave(GraphAttachmentsHandler(pending))
    /\ UNCHANGED <<subj, run, conv, cfg, inputs, msg, conn, steps, pending, accepted, buffers, payload>>
    /\ UNCHANGED <<token, totals>>
    /\ UNCHANGED raisedLog

\* send_email_microsoft_graph_simple: subject, html_content and payload are built
SimplePayload ==
    /\ pc = "simple_payload"
    /\ payload' = GraphSimplePayload(cfg, msg)
    /\ pc' = "simple_token"
    /\ UNCHANGED <<subj, run, conv, cfg, inputs, msg, conn, steps, pending, accepted, buffers, ret, diag>>
    /\ UNCHANGED <<token, totals>>
    /\ UNCHANGED raisedLog

\* headers: f"Bearer {self.acquire_microsoft_graph_token()}"
SimpleToken ==
    /\ pc = "simple_token"
    /\ steps' = Append(steps, "acquire_token")
    /\ totals' = [totals EXCEPT !.tokens = @ + 1]
    /\ \E t \in {AcquireToken(r) : r \in TokenResponses} \cup {TokenFault} :
           /\ token' = t
           /\ pending' = t.raised
           /\ pc' = IF t.raised = "" THEN "simple_post" ELSE "simple_handle"
    /\ UNCHANGED <<subj, run, conv, cfg, inputs, msg, conn, accepted, buffers, payload, ret, diag>>
    /\ LogRaise

SimplePost ==
    /\ pc = "simple_post"
    /\ GraphPost("simple_handle")
    /\ UNCHANGED <<subj, run, conv, cfg, inputs, msg, conn, buffers, payload, ret, diag>>
    /\ UNCHANGED token
    /\ LogRaise

\* send_email_microsoft_graph_simple: return True, or the except clauses
SimpleHandle ==
    /\ pc = "simple_handle"
    /\ Leave(GraphSimpleHandler(pending))
    /\ UNCHANGED <<subj, run, conv, cfg, inputs, msg, conn, steps, pending, accepted, buffers, payload>>
    /\ UNCHANGED <<token, totals>>
    /\ UNCHANGED raisedLog

(***************************************************************************)
(* Specification of composing and sending: the configuration is loaded     *)
(* once, a message is composed from it and sent, any number of times.      *)
(***************************************************************************)
Init ==
    /\ subj = NoCall
    /\ cfg \in Configs
    /\ inputs = NoInputs
    /\ msg = NoMsg
    /\ SendIdle
    /\ totals = NoTotals
    /\ run = NoRun
    /\ conv = NoConv

Next ==
    \/ ComposeEmail
    \/ SendEmail
    \/ SmtpLookup
    \/ SmtpConnect
    \/ SmtpStartTls
    \/ SmtpLogin
    \/ SmtpSendMessage
    \/ SmtpExit
    \/ SmtpHandle
    \/ AttToken
    \/ AttPayload
    \/ AttPost
    \/ AttHandle
    \/ SimplePayload
    \/ SimpleToken
    \/ SimplePost
    \/ SimpleHandle

Spec == Init /\ [][Next]_vars

(***************************************************************************)
(* Properties of compose_email and send_email, checked under Spec.         *)
(***************************************************************************)
\* the send_email call has returned to its caller or raised to it
Returned == pc = "returned"
\* the image tags of the composed HTML body, in order
ImgTags == SelectSeq(HtmlContent(msg), LAMBDA piece : piece.tag = "img")
\* the separators of the composed HTML body
Separators == SelectSeq(HtmlContent(msg), LAMBDA piece : piece.tag = "hr")
\* the image parts attached to the composed message, in order
AttachedImages == SelectSeq(msg.parts, LAMBDA part : part.ctype = "image/png")
\* the number of images handed to compose_email
NumImages == Len(inputs.images)
\* the content-ids image1, image2, ... and page1, page2, ... written out
ImageIds == <<"image1", "image2", "image3", "image4", "image5", "image6">>
PageIds == <<"page1", "page2", "page3", "page4", "page5", "page6">>
ExpectedIds == IF cfg.sender_type = "microsoft_graph" THEN PageIds ELSE ImageIds
\* the referenced-attachment strategy: every configuration but Graph without
\* MIME attachments
Referenced == ~(cfg.sender_type = "microsoft_graph" /\ ~cfg.use_mime_attachments)
\* the base64 text of the two page images of the model, written out
Base64Of(data) == IF data = <<137, 80, 78, 71>> THEN "iVBORw==" ELSE "AP8="
\* a is an initial segment of b
IsPrefix(a, b) == Len(a) <= Len(b) /\ SubSeq(b, 1, Len(a)) = a

\* C1: send_email never raises to its caller: on every transport, a failure of
\* any step of the send attempt makes it return False with a diagnostic.
C1_SendNeverRaises ==
    /\ ret # "raised"
    /\ Returned =>
          /\ ret \in {"True", "False"}
          /\ (ret = "True") <=> (pending = "")
          /\ pending # "" => (ret = "False" /\ diag # "")

\* a call on the SMTP path with a sender type that has no host: False, reported
C1_Witness ==
    /\ Returned
    /\ cfg.sender_type = "smtp"
    /\ pending = "KeyError"
    /\ ret = "False"
    /\ diag = "An error occurred while sending email: KeyError"

\* C2: under the referenced-attachment strategy, the SMTP composer and the Graph
\* composer alike yield n image tags with cid: references in input order and
\* max(n-1, 0) separators, none after the last image.
C2_SeparatorsBetweenImages ==
    (msg.composed /\ Referenced) =>
        /\ Len(ImgTags) = NumImages
        /\ \A i \in 1 .. Len(ImgTags) : ImgTags[i].src = "cid:" \o ExpectedIds[i]
        /\ Len(Separators) = IF NumImages = 0 THEN 0 ELSE NumImages - 1

\* C3: for n images the content-ids are image1..imagen (SMTP sender types) or
\* page1..pagen (microsoft_graph with attachments), dense, 1-based, unique and in
\* input order, and the i-th cid: reference of the body names the content-id of
\* the i-th attached image.
C3_ContentIds ==
    (msg.composed /\ Referenced) =>
        /\ Len(AttachedImages) = NumImages
        /\ Len(ImgTags) = NumImages
        /\ \A i \in 1 .. NumImages :
              /\ AttachedImages[i].content_id = "<" \o ExpectedIds[i] \o ">"
              /\ AttachedImages[i].payload = B64Encode(inputs.images[i])
              /\ ImgTags[i].src = "cid:" \o ExpectedIds[i]
        /\ \A i, j \in 1 .. Len(AttachedImages) :
              AttachedImages[i].content_id = AttachedImages[j].content_id => i = j

\* a message composed for an SMTP sender type from two images
C3_Witness ==
    /\ msg.composed
    /\ cfg.sender_type = "gmail"
    /\ NumImages = 2
    /\ AttachedImages[1].content_id = "<image1>"
    /\ AttachedImages[2].content_id = "<image2>"
    /\ ImgTags[2].src = "cid:image2"

\* C4: the composer and the send path are decided by (sender_type,
\* use_mime_attachments) alone and agree: microsoft_graph with the flag gives cid
\* references, one image part per image and the Graph send with attachments;
\* microsoft_graph without it gives base64 data URIs, no image part and the
\* simple Graph send whose payload has no attachments; any other sender type
\* gives cid references, image parts and the SMTP send, whatever the flag.
C4_VariantSelection ==
    /\ msg.composed =>
          /\ Len(ImgTags) = NumImages
          /\ IF Referenced
             THEN /\ Len(AttachedImages) = NumImages
                  /\ \A i \in 1 .. Len(ImgTags) : ImgTags[i].src = "cid:" \o ExpectedIds[i]
             ELSE /\ Len(AttachedImages) = 0
                  /\ \A i \in 1 .. Len(ImgTags) :
                        ImgTags[i].src =
                            "data:image/png;base64," \o Base64Of(inputs.images[i])
    /\ steps # <<>> =>
          steps[1] = IF cfg.sender_type # "microsoft_graph" THEN "send_email_smtp"
                     ELSE IF cfg.use_mime_attachments
                          THEN "send_email_microsoft_graph_with_attachments"
                          ELSE "send_email_microsoft_graph_simple"
    /\ payload.built =>
          /\ cfg.sender_type = "microsoft_graph"
          /\ ("attachments" \in DOMAIN payload) <=> cfg.use_mime_attachments
          /\ cfg.use_mime_attachments => Len(payload.attachments) = NumImages

\* microsoft_graph without MIME attachments: two inline images, a payload with
\* no attachments, sent by the simple Graph send
C4_Witness ==
    /\ Returned
    /\ ret = "True"
    /\ cfg.sender_type = "microsoft_graph" /\ ~cfg.use_mime_attachments
    /\ NumImages = 2
    /\ Len(AttachedImages) = 0
    /\ ImgTags[1].src = "data:image/png;base64,AP8="
    /\ payload.built /\ "attachments" \notin DOMAIN payload
    /\ steps = <<"send_email_microsoft_graph_simple", "acquire_token", "post">>

\* C5: a message is never partially sent: send_email returns True only when
\* every step of the exchange completed, and whenever it returns False the
\* remote server has not received the message, also when the failure is raised
\* while the SMTP connection is released after send_message succeeded.
C5_NeverPartiallySent ==
    Returned =>
        /\ ret = "True" => (accepted /\ pending = "")
        /\ ret = "False" => ~accepted

\* C6: send_email_smtp connects, starts TLS, logs in and sends in that order,
\* and releases the connection on every exit path: once the call has returned,
\* no connection it opened is still open.
C6_SmtpOrderAndRelease ==
    (steps # <<>> /\ steps[1] = "send_email_smtp") =>
        /\ \/ IsPrefix(Tail(steps), <<"connect", "starttls", "login", "send_message">>)
           \/ /\ steps[Len(steps)] = "quit"
              /\ Len(steps) >= 3
              /\ IsPrefix(SubSeq(steps, 2, Len(steps) - 1),
                          <<"connect", "starttls", "login", "send_message">>)
        /\ conn = "open" => pc \in {"smtp_starttls", "smtp_login", "smtp_send", "smtp_exit"}
        /\ Returned => conn # "open"

\* the connection is lost in the middle of send_message: False, connection closed
C6_Witness ==
    /\ Returned
    /\ ret = "False"
    /\ pending = "SMTPServerDisconnected"
    /\ steps = <<"send_email_smtp", "connect", "starttls", "login", "send_message", "quit">>
    /\ conn = "closed"

\* the running call took one of the two Graph send paths
GraphCall ==
    /\ steps # <<>>
    /\ steps[1] \in {"send_email_microsoft_graph_with_attachments",
                     "send_email_microsoft_graph_simple"}
\* the running call took the SMTP send path
SmtpCall == steps # <<>> /\ steps[1] = "send_email_smtp"
\* the operations named op among those the running call attempted
Attempts(op) == SelectSeq(steps, LAMBDA x : x = op)
\* the exception e was raised inside the running call
Raised(e) == \E i \in 1 .. Len(raisedLog) : raisedLog[i] = e

\* C11: in both Graph send paths an error status or a network fault on the POST
\* makes the send return False, there is no retry (one send_email call issues at
\* most one POST), and True is returned only after an acknowledged POST.
C11_GraphPostNoRetry ==
    /\ totals.posts <= totals.calls
    /\ GraphCall =>
          /\ Len(Attempts("post")) <= 1
          /\ (Returned /\ (Raised("HTTPError") \/ (Raised("ConnectionError") /\ token.raised = "")))
                 => (ret = "False" /\ ~accepted /\ diag # "")
          /\ (Returned /\ ret = "True") =>
                 (steps[Len(steps)] = "post" /\ accepted /\ raisedLog = <<>>)

\* the POST is answered with an error status: False after exactly one POST
C11_Witness ==
    /\ Returned
    /\ steps = <<"send_email_microsoft_graph_with_attachments", "acquire_token", "post">>
    /\ raisedLog = <<"HTTPError">>
    /\ ret = "False"
    /\ diag = "Microsoft Graph API error with attachments: HTTPError"

\* C12: in both Graph send paths the token is acquired before the POST within
\* the same call; a response without access token makes the acquisition fail
\* with an error carrying the provider's error code and description, no POST is
\* issued in that call and send_email returns False.
C12_TokenBeforePost ==
    GraphCall =>
        /\ \A i \in 1 .. Len(steps) :
              steps[i] = "post" =>
                  /\ \E j \in 1 .. (i - 1) : steps[j] = "acquire_token"
                  /\ token.raised = ""
                  /\ token.token = "token-1"
        /\ (Len(Attempts("acquire_token")) = 1 /\ token.token = "") =>
              /\ token.raised \in {"RuntimeError", "ConnectionError"}
              /\ token.raised = "RuntimeError" =>
                    token.message \in
                        {"Token request failed: invalid_client\nAADSTS7000215",
                         "Token request failed: unauthorized_client\nAADSTS700016"}
              /\ Len(Attempts("post")) = 0
              /\ pending = token.raised
              /\ Returned => ret = "False"

\* the identity provider answers invalid_client: no POST, False
C12_Witness ==
    /\ Returned
    /\ steps = <<"send_email_microsoft_graph_simple", "acquire_token">>
    /\ token.raised = "RuntimeError"
    /\ token.message = "Token request failed: invalid_client\nAADSTS7000215"
    /\ ret = "False"
    /\ totals.posts = 0

\* what a call looks like right after send_email dispatched it
FreshCall ==
    /\ Len(steps) = 1
    /\ pending = "" /\ raisedLog = <<>>
    /\ ~accepted
    /\ conn = "none"
    /\ token = NoToken
    /\ payload = NoPayload
    /\ ret = "none" /\ diag = ""
\* k returned calls made k transport exchanges
ExchangePerCall ==
    Returned =>
        /\ (cfg.sender_type \in {"gmail", "microsoft", "yahoo"}) =>
               totals.sessions = totals.calls
        /\ (cfg.sender_type = "microsoft_graph") =>
               /\ totals.tokens = totals.calls
               /\ totals.posts <= totals.tokens
               /\ ret = "True" => Len(Attempts("post")) = 1

\* C13: re-sending is not deduplicated and nothing is cached: k successive calls
\* of send_email with the same message perform k transport exchanges (k SMTP
\* sessions, or k token acquisitions each followed by its own POST), and the
\* outcome of an earlier call never suppresses or changes a later call.
C13_ResendIndependent ==
    /\ [](ExchangePerCall)
    /\ [][(pc = "returned" /\ pc' # "returned") =>
              (FreshCall' /\ totals'.calls = totals.calls + 1 /\ msg' = msg)]_vars
    /\ [][(pc = "att_post" /\ pc' # "att_post") => totals'.posts = totals.posts + 1]_vars
    /\ [][(pc = "simple_post" /\ pc' # "simple_post") =>
              totals'.posts = totals.posts + 1]_vars

\* the second call succeeds after the first one failed before its POST
C13_Witness ==
    /\ Returned
    /\ cfg.sender_type = "microsoft_graph" /\ cfg.use_mime_attachments
    /\ totals.calls = 2
    /\ totals.tokens = 2
    /\ totals.posts = 1
    /\ ret = "True"

\* C14: an SMTP authentication failure at login makes send_email_smtp return
\* False with the diagnostic that mentions authentication, without raising and
\* without send_message having been called.
C14_AuthenticationDiagnostic ==
    (Returned /\ SmtpCall /\ Raised("SMTPAuthenticationError")) =>
        /\ ret = "False"
        /\ diag = "Authentication failed. Please check your email credentials."
        /\ Len(Attempts("send_message")) = 0

\* C18: on the SMTP path the host is looked up by the sender type; a sender type
\* that is not microsoft_graph and has no host makes send_email return False,
\* with no connection opened and nothing transmitted.
C18_MissingHost ==
    /\ (SmtpCall /\ cfg.sender_type \notin {"gmail", "microsoft", "yahoo"}) =>
          /\ steps = <<"send_email_smtp">>
          /\ conn = "none"
          /\ ~accepted
          /\ totals.sessions = 0
          /\ Returned => (ret = "False" /\ raisedLog = <<"KeyError">> /\ diag # "")
    /\ (SmtpCall /\ Raised("KeyError")) => cfg.sender_type \notin {"gmail", "microsoft", "yahoo"}

\* sender type "smtp" has no host: the call returned False without connecting
C18_Witness ==
    /\ Returned
    /\ cfg.sender_type = "smtp"
    /\ steps = <<"send_email_smtp">>
    /\ raisedLog = <<"KeyError">>
    /\ ret = "False"
    /\ conn = "none"

\* C20: on the Graph path with attachments the images round-trip through the
\* MIME message: what send_email extracts equals the images given to
\* compose_email in count, order and bytes, and attachment i of the payload
\* carries the bytes of image i with contentId page{i} and name page{i}.png,
\* matching the i-th cid: reference of the body.
C20_ImagesRoundTrip ==
    (steps # <<>> /\ steps[1] = "send_email_microsoft_graph_with_attachments") =>
        /\ buffers = inputs.images
        /\ payload.built =>
              /\ Len(payload.attachments) = NumImages
              /\ payload.content = HtmlContent(msg)
              /\ \A i \in 1 .. NumImages :
                    /\ payload.attachments[i].contentBytes = Base64Of(inputs.images[i])
                    /\ payload.attachments[i].contentId = PageIds[i]
                    /\ payload.attachments[i].name = PageIds[i] \o ".png"
                    /\ ImgTags[i].src = "cid:" \o payload.attachments[i].contentId

\* a payload built from two different images
C20_Witness ==
    /\ payload.built
    /\ steps[1] = "send_email_microsoft_graph_with_attachments"
    /\ inputs.images = <<<<0, 255>>, <<137, 80, 78, 71>>>>
    /\ payload.attachments[1].contentBytes = "AP8="
    /\ payload.attachments[2].contentBytes = "iVBORw=="
    /\ payload.attachments[2].contentId = "page2"

(***************************************************************************)
(* Specification of generate_subject alone: every call draws a topic type, *)
(* a subtopic and the clock readings.  The second reading of the clock     *)
(* falls on the day of the first or, when midnight passes between the two, *)
(* on the next day.                                                        *)
(***************************************************************************)
CallGenerateSubject ==
    \E topic \in TopicTypes, subtopic \in Subtopics, now1 \in Days :
        \E now2 \in {now1, now1 + 1} :
            /\ subj' = [called |-> TRUE, topic |-> topic, subtopic |-> subtopic,
                        now1 |-> now1, now2 |-> now2,
                        out |-> GenerateSubject(topic, subtopic, now1, now2)]
            /\ UNCHANGED <<sendVars, run, conv>>

InitSubject ==
    /\ subj = NoCall
    /\ cfg = [sender_type |-> "microsoft", use_mime_attachments |-> TRUE,
              sender_email |-> "sender@example.com", recipient_email |-> "rcpt@example.com"]
    /\ inputs = NoInputs
    /\ msg = NoMsg
    /\ SendIdle
    /\ totals = NoTotals
    /\ run = NoRun
    /\ conv = NoConv
NextSubject == CallGenerateSubject
SpecSubject == InitSubject /\ [][NextSubject]_vars

(***************************************************************************)
(* Properties of generate_subject, checked under SpecSubject.              *)
(***************************************************************************)
\* a call with topic type Non-Onc or Onc
DatedCall == subj.called /\ subj.topic \in {"Non-Onc", "Onc"}
\* both clock readings of the call fall on one day, the call's "today"
OneDayCall == subj.now1 = subj.now2
\* 2024-12-20 (ordinal 739240) is a Friday
IsFriday(d) == (d - 739240) % 7 = 0
\* the subtopic as the last component of a subject that has components before it
Suffix(subtopic) == IF subtopic = "" THEN "" ELSE " " \o subtopic

\* C7: for topic type Non-Onc or Onc and every weekday of today, the date used is
\* today + ((4 - weekday(today) + 7) mod 7) days: the offset is in 0..6 and the
\* date is a Friday; on a Wednesday it is the Friday 2 days later, on a Friday
\* it is today.  The offset is in 0..6 in every call; "today" is the day of a
\* call whose clock readings fall on one day.
C7_FridayOffset ==
    DatedCall =>
        /\ \E off \in 0 .. 6 : subj.out.date = Strftime(subj.now1 + off)
        /\ OneDayCall =>
              LET today == subj.now1
                  w     == (today - 739243) % 7    \* 2024-12-23 is a Monday
              IN  /\ subj.out.date = Strftime(today + ((4 - w + 7) % 7))
                  /\ \E off \in 0 .. 6 : /\ subj.out.date = Strftime(today + off)
                                         /\ IsFriday(today + off)
                  /\ (w = 2 => subj.out.date = Strftime(today + 2))
                  /\ (w = 4 => subj.out.date = Strftime(today))

\* a call on Wednesday 2024-12-25 whose date is Friday 2024-12-27
C7_Witness ==
    /\ DatedCall /\ OneDayCall
    /\ subj.now1 = 739245
    /\ subj.out.date = "2024-12-27"

\* C8 as stated: when today is a Friday and the topic type is Non-Onc or Onc, the
\* date in the subject is the Friday 7 days after today.
C8_FridaySevenDaysOut ==
    (DatedCall /\ OneDayCall /\ IsFriday(subj.now1)) =>
        /\ subj.out.date = Strftime(subj.now1 + 7)
        /\ subj.out.subject =
               Strftime(subj.now1 + 7) \o " " \o subj.topic \o Suffix(subj.subtopic)

\* C8 as amended: when the weekday generate_subject reads is a Friday and the
\* topic type is Non-Onc or Onc, the offset is 0: the date in the subject is the
\* day of the base clock reading itself, not the Friday 7 days after it.
C8_FridaySameDay ==
    (DatedCall /\ IsFriday(subj.now2)) =>
        /\ subj.out.date = Strftime(subj.now1)
        /\ subj.out.date # Strftime(subj.now1 + 7)
        /\ subj.out.subject =
               Strftime(subj.now1) \o " " \o subj.topic \o Suffix(subj.subtopic)

\* a call on Friday 2024-12-27 whose subject carries that same day
C8_Witness ==
    /\ DatedCall /\ OneDayCall
    /\ subj.now1 = 739247
    /\ subj.topic = "Non-Onc"
    /\ subj.subtopic = "x"
    /\ subj.out.subject = "2024-12-27 Non-Onc x"

\* C9: the subject is the non-empty components among [date, label, subtopic]
\* joined by single spaces in that order: the empty topic type gives today's date
\* and the subtopic, Non-Onc/Onc give the date, the label and the subtopic, and
\* No Date gives the subtopic alone.
C9_SubjectComponents ==
    (subj.called /\ subj.topic \in {"", "Non-Onc", "Onc", "No Date"}) =>
        /\ subj.out.returned
        /\ subj.topic = "" =>
               subj.out.subject = Strftime(subj.now1) \o Suffix(subj.subtopic)
        /\ subj.topic \in {"Non-Onc", "Onc"} =>
               \E off \in 0 .. 6 :
                   /\ OneDayCall => IsFriday(subj.now1 + off)
                   /\ subj.out.subject =
                          Strftime(subj.now1 + off) \o " " \o subj.topic
                              \o Suffix(subj.subtopic)
        /\ subj.topic = "No Date" => subj.out.subject = subj.subtopic

\* a No Date call whose subject is its subtopic, date and label dropped
C9_Witness ==
    /\ subj.called
    /\ subj.topic = "No Date"
    /\ subj.subtopic = "a b"
    /\ subj.out.returned
    /\ subj.out.subject = "a b"

\* C10: a topic type other than "", "Non-Onc", "Onc" and "No Date" fails with an
\* invalid-input error whose message names the value, and no subject is returned.
C10_InvalidTopicRaises ==
    (subj.called /\ subj.topic \notin {"", "Non-Onc", "Onc", "No Date"}) =>
        /\ ~subj.out.returned
        /\ subj.out.error = "ValueError"
        /\ subj.out.message = "Invalid topic type: " \o subj.topic

\* a call with topic type "Other" that raised
C10_Witness ==
    /\ subj.called
    /\ subj.topic = "Other"
    /\ subj.out.error = "ValueError"
    /\ subj.out.message = "Invalid topic type: Other"

\* C19: generate_subject reads the clock twice for topic types Non-Onc and Onc;
\* for every pair of readings, including when midnight passes between the two
\* reads, the date placed in the subject is a Friday.
C19_AlwaysFriday ==
    DatedCall =>
        \E d \in subj.now1 .. (subj.now1 + 7) :
            /\ IsFriday(d)
            /\ subj.out.date = Strftime(d)

(***************************************************************************)
(* validate_config (src/src/config.py) and the run of main                 *)
(* (src/src/main.py).                                                      *)
(***************************************************************************)
\* EMAIL_CONFIG as read from the secrets: every secret is either set or left at
\* its default, the empty string
FullConfigs ==
    [sender_type : SenderTypes, use_mime_attachments : BOOLEAN,
     sender_email : {"", "sender@example.com"},
     recipient_email : {"", "rcpt@example.com"},
     sender_password : {"", "app-password"},
     microsoft_tenant_id : {"", "tenant-1"},
     microsoft_client_id : {"", "client-1"},
     microsoft_client_secret : {"", "secret-1"}]

\* issues[key] = value on a dict
Put(d, k, v) == [x \in (DOMAIN d) \cup {k} |-> IF x = k THEN v ELSE d[x]]

\* the message of a missing secret
NotSet(key) == key \o " not set in secrets"

ValidateConfigFirstOnly(c) ==
    IF c.sender_email = "" THEN Put(<<>>, "sender_email", NotSet("sender_email"))
    ELSE IF c.recipient_email = ""
    THEN Put(<<>>, "recipient_email", NotSet("recipient_email"))
    ELSE IF c.sender_type = "microsoft_graph"
    THEN IF c.microsoft_tenant_id = ""
         THEN Put(<<>>, "microsoft_tenant_id", NotSet("microsoft_tenant_id"))
         ELSE IF c.microsoft_client_id = ""
         THEN Put(<<>>, "microsoft_client_id", NotSet("microsoft_client_id"))
         ELSE IF c.microsoft_client_secret = ""
         THEN Put(<<>>, "microsoft_client_secret", NotSet("microsoft_client_secret"))
         ELSE <<>>
    ELSE IF c.sender_type \in DOMAIN SmtpHosts
    THEN IF c.sender_password = ""
         THEN Put(<<>>, "sender_password", NotSet("sender_password"))
         ELSE <<>>
    ELSE Put(<<>>, "sender_type", "Invalid sender type: " \o c.sender_type
                 \o ". Options: microsoft, gmail, yahoo, microsoft_graph")
\* validate_config(): the issues dict, filled check by check
ValidateConfig(c) ==
    LET i0 == <<>>
        i1 == IF c.sender_email = ""
              THEN Put(i0, "sender_email", NotSet("sender_email")) ELSE i0
        i2 == IF c.recipient_email = ""
              THEN Put(i1, "recipient_email", NotSet("recipient_email")) ELSE i1
        g1 == IF c.microsoft_tenant_id = ""
              THEN Put(i2, "microsoft_tenant_id", NotSet("microsoft_tenant_id")) ELSE i2
        g2 == IF c.microsoft_client_id = ""
              THEN Put(g1, "microsoft_client_id", NotSet("microsoft_client_id")) ELSE g1
        g3 == IF c.microsoft_client_secret = ""
              THEN Put(g2, "microsoft_client_secret", NotSet("microsoft_client_secret"))
              ELSE g2
        s1 == IF c.sender_password = ""
              THEN Put(i2, "sender_password", NotSet("sender_password")) ELSE i2
    IN  IF c.sender_type = "microsoft_graph" THEN g3
        ELSE IF c.sender_type \in DOMAIN SmtpHosts THEN s1
        ELSE Put(i2, "sender_type", "Invalid sender type: " \o c.sender_type
                     \o ". Options: microsoft, gmail, yahoo, microsoft_graph")

AfterValidationNoStop(config_issues) == "validated"
\* validate_environment: st.stop() ends the run when config_issues is not empty
AfterValidation(config_issues) ==
    IF config_issues # <<>> THEN "stopped" ELSE "validated"

\* validate_environment(): the issues are computed, each one is shown with
\* st.error as "<issue>: <message>" behind a bullet, and the run stops
ValidateEnvironment ==
    /\ run.pc = "start"
    /\ LET config_issues == ValidateConfig(cfg)
       IN  run' = [pc |-> AfterValidation(config_issues),
                   issues |-> config_issues,
                   reported |-> {k \o ": " \o config_issues[k] : k \in DOMAIN config_issues}]
    /\ UNCHANGED <<subj, conv, sendVars>>

\* main: compose_email is called when image_buffers is not empty and the send
\* button was pressed, in the part of main that follows validate_environment()
MainComposeEmail ==
    /\ run.pc = "validated"
    /\ ComposeEmail
    /\ inputs'.images # <<>>

\* main: send_email(msg) follows compose_email once in a run
MainSendEmail ==
    /\ run.pc = "validated"
    /\ totals.calls = 0
    /\ SendEmail

InitMain ==
    /\ subj = NoCall
    /\ cfg \in FullConfigs
    /\ inputs = NoInputs
    /\ msg = NoMsg
    /\ SendIdle
    /\ totals = NoTotals
    /\ run = NoRun
    /\ conv = NoConv

NextMain ==
    \/ ValidateEnvironment
    \/ MainComposeEmail
    \/ MainSendEmail
    \/ SmtpLookup
    \/ SmtpConnect
    \/ SmtpStartTls
    \/ SmtpLogin
    \/ SmtpSendMessage
    \/ SmtpExit
    \/ SmtpHandle
    \/ AttToken
    \/ AttPayload
    \/ AttPost
    \/ AttHandle
    \/ SimplePayload
    \/ SimpleToken
    \/ SimplePost
    \/ SimpleHandle

SpecMain == InitMain /\ [][NextMain]_vars

(***************************************************************************)
(* Properties of validate_config and main, checked under SpecMain.         *)
(***************************************************************************)
\* the keys that are mandatory for the configured sender type
Mandatory(c) ==
    {"sender_email", "recipient_email"}
    \cup (IF c.sender_type = "microsoft_graph"
          THEN {"microsoft_tenant_id", "microsoft_client_id", "microsoft_client_secret"}
          ELSE IF c.sender_type \in {"gmail", "microsoft", "yahoo"}
          THEN {"sender_password"}
          ELSE {})
\* the entries validate_config has to report
Missing(c) ==
    {k \in Mandatory(c) : c[k] = ""}
    \cup (IF c.sender_type \notin {"gmail", "microsoft", "yahoo", "microsoft_graph"}
          THEN {"sender_type"} ELSE {})
\* validate_environment has run
Validated == run.pc # "start"

\* C15: validate_config reports every missing field at once: the issue set has
\* exactly one entry per missing mandatory key of the active sender type (and a
\* sender_type entry when the type is none of the known ones), and it is empty
\* exactly when nothing mandatory is missing.
C15_EveryMissingKey ==
    Validated =>
        /\ DOMAIN run.issues = Missing(cfg)
        /\ Cardinality(DOMAIN run.issues) = Cardinality(Missing(cfg))
        /\ (run.issues = <<>>) <=> (Missing(cfg) = {})
        /\ \A k \in DOMAIN run.issues :
              run.issues[k] = IF k = "sender_type"
                              THEN "Invalid sender type: smtp. Options: microsoft, gmail, yahoo, microsoft_graph"
                              ELSE k \o " not set in secrets"

\* a Graph configuration without recipient, tenant id and client secret: three
\* issues at once, and none for the SMTP password that is missing too
C15_Witness ==
    /\ Validated
    /\ cfg.sender_type = "microsoft_graph"
    /\ cfg.sender_password = ""
    /\ run.issues = [recipient_email |-> "recipient_email not set in secrets",
                     microsoft_tenant_id |-> "microsoft_tenant_id not set in secrets",
                     microsoft_client_secret |-> "microsoft_client_secret not set in secrets"]

\* compose_email or send_email was reached in this run
ComposeOrSendReached == msg.composed \/ totals.calls > 0 \/ pc # "idle" \/ steps # <<>>

\* C16: in every run of main the configuration issues are reported before any
\* send: when validate_config returns issues the run reports them and stops,
\* neither compose_email nor send_email is reached in that run, and a send is
\* only attempted in a run whose validation returned no issue.
C16_IssuesStopTheRun ==
    /\ ~Validated => ~ComposeOrSendReached
    /\ (Validated /\ Missing(cfg) # {}) =>
          /\ run.pc = "stopped"
          /\ Cardinality(run.reported) = Cardinality(Missing(cfg))
          /\ \A k \in Missing(cfg) : \E line \in run.reported : line = k \o ": " \o run.issues[k]
          /\ ~ComposeOrSendReached
    /\ ComposeOrSendReached =>
          /\ run.pc = "validated"
          /\ run.issues = <<>>
          /\ Missing(cfg) = {}

\* a gmail configuration without password: the run stopped with the issue shown
C16_Witness ==
    /\ run.pc = "stopped"
    /\ cfg.sender_type = "gmail"
    /\ run.reported = {"sender_password: sender_password not set in secrets"}
    /\ ~ComposeOrSendReached

(***************************************************************************)
(* convert_pdf_to_images (src/src/pdf_converter.py), step by step.  conv    *)
(* holds the position of the call, the state of its temporary file on disk, *)
(* the page count, the page being processed, the exception in flight, how   *)
(* the call ended, the number of calls and of temporary files left behind.  *)
(***************************************************************************)
\* the call ends: it returns image_buffers or lets the exception propagate
Finish(c) ==
    [c EXCEPT !.pc = "done",
              !.outcome = IF c.raised = "" THEN "returned" ELSE "raised",
              !.left = IF c.file = "exists" THEN @ + 1 ELSE @]

\* tempfile.NamedTemporaryFile(suffix='.pdf', delete=False): the file is created
\* on disk, or the creation fails and there is no file
ConvCreate ==
    /\ conv.pc \in {"idle", "done"}
    /\ conv.calls < MaxConversions
    /\ \E ok \in BOOLEAN :
           LET c == [NoConv EXCEPT !.calls = conv.calls + 1, !.left = conv.left]
           IN  conv' = IF ok THEN [c EXCEPT !.pc = "read", !.file = "exists"]
                       ELSE Finish([c EXCEPT !.raised = "OSError"])
    /\ UNCHANGED <<subj, run, sendVars>>

\* uploaded_file.read() inside the with block, before the try: when it raises,
\* the with block closes the file, which delete=False keeps on disk, and the
\* exception leaves convert_pdf_to_images
ConvRead ==
    /\ conv.pc = "read"
    /\ \E ok \in BOOLEAN :
           conv' = IF ok THEN [conv EXCEPT !.pc = "write"]
                   ELSE Finish([conv EXCEPT !.raised = "ValueError"])
    /\ UNCHANGED <<subj, run, sendVars>>

\* temp_file.write(...) inside the with block, before the try
ConvWrite ==
    /\ conv.pc = "write"
    /\ \E ok \in BOOLEAN :
           conv' = IF ok THEN [conv EXCEPT !.pc = "rasterize"]
                   ELSE Finish([conv EXCEPT !.raised = "OSError"])
    /\ UNCHANGED <<subj, run, sendVars>>

\* try: images = convert_from_path(temp_file_path)
ConvRasterize ==
    /\ conv.pc = "rasterize"
    /\ \/ \E n \in 0 .. MaxPages :
              conv' = [conv EXCEPT !.pages = n, !.page = IF n = 0 THEN 0 ELSE 1,
                                   !.pc = IF n = 0 THEN "unlink" ELSE "thumbnail"]
       \/ conv' = [conv EXCEPT !.raised = "PDFPageCountError", !.pc = "unlink"]
    /\ UNCHANGED <<subj, run, sendVars>>

\* img.thumbnail(self.max_size) for the current page
ConvThumbnail ==
    /\ conv.pc = "thumbnail"
    /\ \E ok \in BOOLEAN :
           conv' = IF ok THEN [conv EXCEPT !.pc = "save"]
                   ELSE [conv EXCEPT !.raised = "ValueError", !.pc = "unlink"]
    /\ UNCHANGED <<subj, run, sendVars>>

\* img.save(buffer, format=..., quality=...) for the current page, then the next
\* page or the end of the loop
ConvSave ==
    /\ conv.pc = "save"
    /\ \E ok \in BOOLEAN :
           conv' = IF ~ok THEN [conv EXCEPT !.raised = "OSError", !.pc = "unlink"]
                   ELSE IF conv.page < conv.pages
                   THEN [conv EXCEPT !.page = @ + 1, !.pc = "thumbnail"]
                   ELSE [conv EXCEPT !.pc = "unlink"]
    /\ UNCHANGED <<subj, run, sendVars>>

\* finally: os.unlink(temp_file_path); an OSError is passed over, with the file
\* already gone or still there and not accessible
ConvUnlink ==
    /\ conv.pc = "unlink"
    /\ \E after \in {"removed", "exists"} :
           conv' = Finish([conv EXCEPT !.file = after])
    /\ UNCHANGED <<subj, run, sendVars>>

InitConvert ==
    /\ subj = NoCall
    /\ cfg = [sender_type |-> "microsoft", use_mime_attachments |-> TRUE,
              sender_email |-> "sender@example.com", recipient_email |-> "rcpt@example.com"]
    /\ inputs = NoInputs
    /\ msg = NoMsg
    /\ SendIdle
    /\ totals = NoTotals
    /\ run = NoRun
    /\ conv = NoConv

NextConvert ==
    \/ ConvCreate
    \/ ConvRead
    \/ ConvWrite
    \/ ConvRasterize
    \/ ConvThumbnail
    \/ ConvSave
    \/ ConvUnlink

SpecConvert == InitConvert /\ [][NextConvert]_vars

(***************************************************************************)
(* Properties of convert_pdf_to_images, checked under SpecConvert.         *)
(***************************************************************************)
\* C17: the temporary PDF file created by convert_pdf_to_images is removed
\* regardless of outcome: after the call returns or raises the temporary file no
\* longer exists, whichever step failed (reading the upload, writing the
\* temporary file, rasterizing, resizing or encoding a page).
C17_TempFileRemoved ==
    conv.pc = "done" => (conv.file # "exists" /\ conv.left = 0)

====
